---- MODULE Spec2Model ----
(***************************************************************************)
(* Model of kml_area.py: the longitude unwrapping, the spherical polygon   *)
(* area, the vertex-average centroid, the KML coordinate parser and the    *)
(* per-folder summary loop.                                                *)
(*                                                                         *)
(* Numbers.  Python floats are modelled as fixed-point integers, each      *)
(* quantity on its own grid:                                               *)
(*   degrees            whole degrees                                      *)
(*   radians            milliradians (math.radians multiplies by 17/1000)  *)
(*   sin, cos, x, y, z  thousandths                                        *)
(*   total              1e-6 (milliradians times thousandths)              *)
(*   EARTH_RADIUS       kilometres; EARTH_RADIUS ** 2 in square megametres *)
(*   area               square kilometres                                  *)
(* Within a grid the arithmetic is exact: the round-off of IEEE doubles    *)
(* (a last-bit difference between two orders of summation) is not part of  *)
(* the model.                                                              *)
(***************************************************************************)
EXTENDS Integers, Sequences, FiniteSets

VARIABLES
    pc,          \* position of the caller
    lats_deg,    \* the caller's latitude list
    lons_deg,    \* the caller's longitude list
    unwrapped,   \* what _unwrap_lons returned
    area,        \* what spherical_polygon_area_sq_m returned
    centroid,    \* what centroid_latlon returned
    results,     \* parse_kml_polygons: the list being built
    used,        \* parse_kml_polygons: coordinate tokens read so far
    parsed,      \* history: the polygons as parse_kml_polygons returned them
    polygons,    \* summarize_kml_folder: the polygon dicts (their current lists)
    idx,         \* summarize_kml_folder: index of the polygon in the loop
    centroid_args, \* history: the lists handed to centroid_latlon, per polygon
    rows         \* summarize_kml_folder: the rows built so far

vars == <<pc, lats_deg, lons_deg, unwrapped, area, centroid, results, used,
          parsed, polygons, idx, centroid_args, rows>>

\* ------------------------------------------------------------------ bounds

\* Longest list of vertices (or of longitudes) drawn as an input.
MaxLen == 4

\* Most coordinate tokens read from one KML file.
MaxCoords == 6

\* ------------------------------------------------------------- arithmetic

Abs(x) == IF x < 0 THEN -x ELSE x

\* math.radians: degrees to milliradians, pi/180 = 0.01745...
RadPerDeg == 17

radians(deg) == deg * RadPerDeg

\* sin of whole degrees 0..90, in thousandths.
SinTab == <<0, 17, 35, 52, 70, 87, 105, 122, 139, 156, 174, 191, 208, 225,
  242, 259, 276, 292, 309, 326, 342, 358, 375, 391, 407, 423, 438, 454, 469,
  485, 500, 515, 530, 545, 559, 574, 588, 602, 616, 629, 643, 656, 669, 682,
  695, 707, 719, 731, 743, 755, 766, 777, 788, 799, 809, 819, 829, 839, 848,
  857, 866, 875, 883, 891, 899, 906, 914, 921, 927, 934, 940, 946, 951, 956,
  961, 966, 970, 974, 978, 982, 985, 988, 990, 993, 995, 996, 998, 999, 999,
  1000, 1000>>

SinDeg(deg) ==
    LET r == deg % 360
    IN  IF r <= 90 THEN SinTab[r + 1]
        ELSE IF r <= 180 THEN SinTab[180 - r + 1]
        ELSE IF r <= 270 THEN -SinTab[r - 180 + 1]
        ELSE -SinTab[360 - r + 1]

\* math.sin and math.cos of an angle in milliradians, in thousandths.
sin(rad) == SinDeg(rad \div RadPerDeg)

cos(rad) == SinDeg(90 - (rad \div RadPerDeg))

\* Product of two thousandths, in thousandths.
Mul(a, b) == (a * b) \div 1000

\* The integer square root of v, by bisection: lo * lo <= v < hi * hi.
RECURSIVE ISqrt(_, _, _)
ISqrt(v, lo, hi) ==
    IF hi - lo <= 1 THEN lo
    ELSE LET mid == (lo + hi) \div 2
         IN  IF mid * mid <= v THEN ISqrt(v, mid, hi) ELSE ISqrt(v, lo, mid)

\* math.hypot on the grid; x and y are at most 1000 thousandths.
hypot(x, y) == ISqrt(x * x + y * y, 0, 2048)

\* How far direction t is from the vector (x, y): minus the projection when
\* coarse, the size of the cross product when not.
Miss(y, x, t, coarse) ==
    IF coarse THEN -(x * SinDeg(90 - t) + y * SinDeg(t))
    ELSE Abs(x * SinDeg(t) - y * SinDeg(90 - t))

\* The better of two directions; on a tie the one nearer to 0.
Better(y, x, a, b, coarse) ==
    LET ma == Miss(y, x, a, coarse)
        mb == Miss(y, x, b, coarse)
    IN  IF ma < mb THEN a
        ELSE IF mb < ma THEN b
        ELSE IF Abs(a) <= Abs(b) THEN a ELSE b

\* The best direction among lo, lo + step, ..., lo + n * step.
RECURSIVE BestAngle(_, _, _, _, _, _)
BestAngle(y, x, lo, step, n, coarse) ==
    IF n = 0 THEN lo
    ELSE LET h == n \div 2
         IN  Better(y, x, BestAngle(y, x, lo, step, h, coarse),
                    BestAngle(y, x, lo + (h + 1) * step, step, n - h - 1, coarse),
                    coarse)

\* math.degrees(math.atan2(y, x)) to the whole degree: the direction in
\* (-180, 180] of (x, y), found to the nearest 15 degrees and then within 14
\* degrees of that; atan2(0, 0) is 0.
atan2_deg(y, x) ==
    LET near == BestAngle(y, x, -165, 15, 23, TRUE)
        t == BestAngle(y, x, near - 14, 1, 28, FALSE)
    IN  IF t <= -180 THEN t + 360 ELSE IF t > 180 THEN t - 360 ELSE t

\* ------------------------------------------------------------ _unwrap_lons

\* Lines 25-31: the delta that one step of the loop adds.
unwrap_delta_no_elif(d) == IF d > 180 THEN d - 360 ELSE d

unwrap_delta_swapped(d) ==
    IF d > 180 THEN d + 360 ELSE IF d < -180 THEN d - 360 ELSE d

unwrap_delta(d) ==
    IF d > 180 THEN d - 360 ELSE IF d < -180 THEN d + 360 ELSE d

\* Lines 24-31: the loop, i counted from 2 as the lists are 1-based here.
RECURSIVE unwrap_loop(_, _, _)
unwrap_loop(lons, i, acc) ==
    IF i > Len(lons) THEN acc
    ELSE unwrap_loop(lons, i + 1,
             Append(acc, acc[Len(acc)] + unwrap_delta(lons[i] - lons[i - 1])))

\* Line 34: one element of the result, relative to the first input.
reanchor_no_offset(base, u, u0) == base + u

reanchor(base, u, u0) == base + (u - u0)

no_unwrap(lons) == lons

\* Lines 23-35.  The list is not empty: see unwrap_raises.
_unwrap_lons(lons) ==
    LET acc == unwrap_loop(lons, 2, <<lons[1]>>)
        base == lons[1]
    IN  [k \in 1..Len(acc) |-> reanchor(base, acc[k], acc[1])]

\* Line 23: lons[0] of an empty list raises IndexError.
unwrap_raises(lons) == lons = <<>>

\* ---------------------------------------------- spherical_polygon_area_sq_m

\* The list objects of one call: the two the caller passed, and the lists the
\* function builds.
Objs == {"arg_lats", "arg_lons", "closed_lats", "closed_lons"}

NewHeap(lats, lons) ==
    [o \in Objs |-> IF o = "arg_lats" THEN lats
                    ELSE IF o = "arg_lons" THEN lons ELSE <<>>]

\* Lines 49-50: xs + [item] builds a new list object and leaves xs alone.
list_append_in_place(heap, ref, item, new) ==
    [heap |-> [heap EXCEPT ![ref] = Append(heap[ref], item)], ref |-> ref]

list_concat(heap, ref, item, new) ==
    [heap |-> [heap EXCEPT ![new] = Append(heap[ref], item)], ref |-> new]

\* Line 45.
too_few_off_by_one(lats) == Len(lats) <= 3

too_few(lats) == Len(lats) < 3

\* Line 48.
not_closed_and(lats, lons) ==
    lats[1] # lats[Len(lats)] /\ lons[1] # lons[Len(lons)]

not_closed(lats, lons) ==
    lats[1] # lats[Len(lats)] \/ lons[1] # lons[Len(lons)]

\* Lines 47-50 on a frame [heap, lats_deg, lons_deg]: the locals are rebound
\* to the new lists.
close_ring(f) ==
    IF not_closed(f.heap[f.lats_deg], f.heap[f.lons_deg])
    THEN LET a == list_concat(f.heap, f.lats_deg,
                              f.heap[f.lats_deg][1], "closed_lats")
             b == list_concat(a.heap, f.lons_deg,
                              a.heap[f.lons_deg][1], "closed_lons")
         IN  [heap |-> b.heap, lats_deg |-> a.ref, lons_deg |-> b.ref]
    ELSE f

\* Lines 61-65: the sum over the edges i -> i+1, from edge i on.
RECURSIVE edge_sum(_, _, _)
edge_sum(lats, lons, i) ==
    IF i > Len(lats) - 1 THEN 0
    ELSE (lons[i + 1] - lons[i]) * (sin(lats[i]) + sin(lats[i + 1]))
         + edge_sum(lats, lons, i + 1)

\* Line 66.
area_on_unit_sphere_signed(total) == total \div 2

area_on_unit_sphere(total) == Abs(total) \div 2

\* Line 16, in kilometres.
EARTH_RADIUS == 6371

\* EARTH_RADIUS ** 2, in square megametres.
earth_radius_sq == (EARTH_RADIUS * EARTH_RADIUS) \div 1000000

\* Lines 52-68 on the closed ring.
area_of_closed(lats_d, lons_d) ==
    LET lons_u == _unwrap_lons(lons_d)
        lats == [k \in 1..Len(lats_d) |-> radians(lats_d[k])]
        lons == [k \in 1..Len(lons_u) |-> radians(lons_u[k])]
        total == edge_sum(lats, lons, 1)
    IN  area_on_unit_sphere(total) * earth_radius_sq

\* The call, lines 45-68: what it returns, and the caller's two list objects
\* as the call leaves them.
area_call(lats, lons) ==
    LET f0 == [heap |-> NewHeap(lats, lons),
               lats_deg |-> "arg_lats", lons_deg |-> "arg_lons"]
    IN  IF too_few(lats)
        THEN [ret |-> 0, lats |-> lats, lons |-> lons]
        ELSE LET f == close_ring(f0)
             IN  [ret |-> area_of_closed(f.heap[f.lats_deg], f.heap[f.lons_deg]),
                  lats |-> f.heap["arg_lats"],
                  lons |-> f.heap["arg_lons"]]

spherical_polygon_area_sq_m(lats, lons) == area_call(lats, lons).ret

\* --------------------------------------------------------- centroid_latlon

\* Lines 78-84: the sums of x, y and z over zip(lats_deg, lons_deg).
RECURSIVE xyz_sum(_, _, _)
xyz_sum(lats, lons, i) ==
    IF i > Len(lats) \/ i > Len(lons) THEN [x |-> 0, y |-> 0, z |-> 0]
    ELSE LET lat == radians(lats[i])
             lon == radians(lons[i])
             rest == xyz_sum(lats, lons, i + 1)
         IN  [x |-> Mul(cos(lat), cos(lon)) + rest.x,
              y |-> Mul(cos(lat), sin(lon)) + rest.y,
              z |-> sin(lat) + rest.z]

\* Lines 78-92.  Dividing by n = 0 raises ZeroDivisionError.
centroid_mean(lats, lons) ==
    LET s == xyz_sum(lats, lons, 1)
        n == Len(lats)
    IN  IF n = 0
        THEN [raised |-> "ZeroDivisionError", lat |-> 0, lon |-> 0]
        ELSE LET x == s.x \div n
                 y == s.y \div n
                 z == s.z \div n
                 hyp == hypot(x, y)
             IN  [raised |-> "", lat |-> atan2_deg(z, hyp),
                  lon |-> atan2_deg(y, x)]

centroid_latlon_unguarded(lats, lons) == centroid_mean(lats, lons)

\* Lines 75-92.
centroid_latlon(lats, lons) ==
    IF lats = <<>> THEN [raised |-> "", lat |-> 0, lon |-> 0]
    ELSE centroid_mean(lats, lons)

\* ------------------------------------------------------ parse_kml_polygons

\* Lines 123-131: a coordinate token either splits into two floats or raises
\* inside the try, and is then skipped.
token_ok(tok) == tok.ok

\* Line 133.
keep_polygon(lats) == Len(lats) >= 3

\* --------------------------------------------------- summarize_kml_folder

\* Line 151: area_m2 / 10000.0, kept as the exact fraction.
area_ha(area_m2) == <<area_m2, 10000>>

\* Lines 150-159: one pass of the loop body over the polygon dict poly.
summarize_polygon(poly) ==
    LET call == area_call(poly.lats, poly.lons)
        after == [lats |-> call.lats, lons |-> call.lons]
        c == centroid_latlon(after.lats, after.lons)
    IN  [poly |-> after,
         centroid_args |-> after,
         row |-> [Area_ha |-> area_ha(call.ret),
                  Latitude |-> c.lat, Longitude |-> c.lon]]

\* ------------------------------------------------------------------ inputs

\* Longitudes handed to _unwrap_lons alone: in range, on both sides of the
\* antimeridian, and one out of range.
UnwrapLons == {-180, -170, 0, 10, 170, 180, 540}

\* Vertices of the rings handed to the area and the centroid.
RingLats == {-30, 30}

RingLons == {-180, -120, 0, 120, 180}

\* Coordinate tokens of a KML file: three vertices about the antimeridian and
\* a token that does not parse.
Tokens ==
    {[ok |-> TRUE, lon |-> 170, lat |-> -30],
     [ok |-> TRUE, lon |-> 180, lat |-> 30],
     [ok |-> TRUE, lon |-> -170, lat |-> -30],
     [ok |-> FALSE, lon |-> 0, lat |-> 0]}

SeqsUpTo(S, n) == UNION {[1..k -> S] : k \in 0..n}

\* ------------------------------------------------------- the geometry core

InitIdle ==
    /\ unwrapped = <<>>
    /\ area = 0
    /\ centroid = [raised |-> "not called", lat |-> 0, lon |-> 0]
    /\ results = <<>>
    /\ used = 0
    /\ parsed = <<>>
    /\ polygons = <<>>
    /\ idx = 0
    /\ centroid_args = <<>>
    /\ rows = <<>>

\* A caller holds either a list of longitudes for _unwrap_lons, or a ring
\* (parallel lists) for the area and the centroid.
Init ==
    /\ InitIdle
    /\ \/ /\ pc = "unwrap_input"
          /\ lats_deg = <<>>
          /\ lons_deg \in SeqsUpTo(UnwrapLons, MaxLen)
       \/ /\ pc = "ring_input"
          /\ \E n \in 0..MaxLen :
                /\ lats_deg \in [1..n -> RingLats]
                /\ lons_deg \in [1..n -> RingLons]

\* _unwrap_lons(lons_deg)
Unwrap ==
    /\ pc = "unwrap_input"
    /\ IF unwrap_raises(lons_deg)
       THEN pc' = "IndexError" /\ UNCHANGED unwrapped
       ELSE pc' = "unwrapped" /\ unwrapped' = _unwrap_lons(lons_deg)
    /\ UNCHANGED <<lats_deg, lons_deg, area, centroid, results, used, parsed,
                   polygons, idx, centroid_args, rows>>

\* spherical_polygon_area_sq_m(lats_deg, lons_deg)
Area ==
    /\ pc = "ring_input"
    /\ LET call == area_call(lats_deg, lons_deg)
       IN  /\ area' = call.ret
           /\ lats_deg' = call.lats
           /\ lons_deg' = call.lons
    /\ pc' = "area_done"
    /\ UNCHANGED <<unwrapped, centroid, results, used, parsed, polygons, idx,
                   centroid_args, rows>>

\* centroid_latlon(lats_deg, lons_deg)
Centroid ==
    /\ pc = "area_done"
    /\ centroid' = centroid_latlon(lats_deg, lons_deg)
    /\ pc' = IF centroid'.raised = "" THEN "done" ELSE centroid'.raised
    /\ UNCHANGED <<lats_deg, lons_deg, unwrapped, area, results, used, parsed,
                   polygons, idx, centroid_args, rows>>

Next == Unwrap \/ Area \/ Centroid

Spec == Init /\ [][Next]_vars

\* ------------------------------------------------- the folder, one KML file

InitFolder ==
    /\ InitIdle
    /\ pc = "placemark"
    /\ lats_deg = <<>>
    /\ lons_deg = <<>>

\* Lines 109-122: the next Placemark has a coordinates element with text; its
\* lists start empty.  (One without is skipped, line 117, and changes nothing.)
StartPlacemark ==
    /\ pc = "placemark"
    /\ used < MaxCoords
    /\ pc' = "coords"
    /\ lats_deg' = <<>>
    /\ lons_deg' = <<>>
    /\ UNCHANGED <<unwrapped, area, centroid, results, used, parsed, polygons,
                   idx, centroid_args, rows>>

\* Lines 123-131: one token of the coordinates text.
ReadToken ==
    /\ pc = "coords"
    /\ used < MaxCoords
    /\ \E tok \in Tokens :
          IF token_ok(tok)
          THEN /\ lats_deg' = Append(lats_deg, tok.lat)
               /\ lons_deg' = Append(lons_deg, tok.lon)
          ELSE UNCHANGED <<lats_deg, lons_deg>>
    /\ used' = used + 1
    /\ UNCHANGED <<pc, unwrapped, area, centroid, results, parsed, polygons,
                   idx, centroid_args, rows>>

\* Lines 133-134: the end of the coordinates text.
EndPlacemark ==
    /\ pc = "coords"
    /\ results' = IF keep_polygon(lats_deg)
                  THEN Append(results, [lats |-> lats_deg, lons |-> lons_deg])
                  ELSE results
    /\ pc' = "placemark"
    /\ lats_deg' = <<>>
    /\ lons_deg' = <<>>
    /\ UNCHANGED <<unwrapped, area, centroid, used, parsed, polygons, idx,
                   centroid_args, rows>>

\* Line 135 and line 148: parse_kml_polygons returns its list.
ReturnPolygons ==
    /\ pc = "placemark"
    /\ polygons' = results
    /\ parsed' = results
    /\ idx' = 1
    /\ pc' = "loop"
    /\ UNCHANGED <<lats_deg, lons_deg, unwrapped, area, centroid, results,
                   used, centroid_args, rows>>

\* Lines 149-159: the loop body for polygons[idx].
SummarizePolygon ==
    /\ pc = "loop"
    /\ idx <= Len(polygons)
    /\ LET r == summarize_polygon(polygons[idx])
       IN  /\ polygons' = [polygons EXCEPT ![idx] = r.poly]
           /\ centroid_args' = Append(centroid_args, r.centroid_args)
           /\ rows' = Append(rows, r.row)
    /\ idx' = idx + 1
    /\ UNCHANGED <<pc, lats_deg, lons_deg, unwrapped, area, centroid, results,
                   used, parsed>>

\* Line 160.
ReturnRows ==
    /\ pc = "loop"
    /\ idx > Len(polygons)
    /\ pc' = "returned"
    /\ UNCHANGED <<lats_deg, lons_deg, unwrapped, area, centroid, results,
                   used, parsed, polygons, idx, centroid_args, rows>>

NextFolder ==
    \/ StartPlacemark
    \/ ReadToken
    \/ EndPlacemark
    \/ ReturnPolygons
    \/ SummarizePolygon
    \/ ReturnRows

SpecFolder == InitFolder /\ [][NextFolder]_vars

\* ---------------------------------------------------------------- claims

InRange(lons) == \A i \in 1..Len(lons) : -180 <= lons[i] /\ lons[i] <= 180

Reverse(xs) == [k \in 1..Len(xs) |-> xs[Len(xs) + 1 - k]]

\* The (lat, lon) values a ring takes.
Vertices(lats, lons) == {<<lats[i], lons[i]>> : i \in 1..Len(lats)}

\* Some step of the list jumps by more than 180 degrees as written.
Jumps(lons) == \E i \in 2..Len(lons) : Abs(lons[i] - lons[i - 1]) > 180

\* Degrees of longitude between two meridians, the short way round.
LonApart(a, b) ==
    LET m == Abs(a - b) % 360 IN IF m > 180 THEN 360 - m ELSE m

\* Every edge of the ring, the one from the last vertex back to the first
\* included, spans less than 180 degrees of longitude.
ShortEdges(lons) ==
    \A i \in 1..Len(lons) :
        LonApart(lons[i], lons[(i % Len(lons)) + 1]) < 180

\* A longitude shifted by -180 degrees and wrapped back into [-180, 180].
Shifted(lon) == IF lon - 180 < -180 THEN lon - 180 + 360 ELSE lon - 180

ShiftedRing(lons) == [k \in 1..Len(lons) |-> Shifted(lons[k])]

\* C1: _unwrap_lons of a list of n >= 1 longitudes returns n values, the
\* first equal to the first input, each later one equal to the one before it
\* plus the input's step, less 360 when the step exceeds 180 and plus 360
\* when it is below -180; a list of one is returned as it is.
C1_UnwrapContract ==
    pc = "unwrapped" =>
        /\ Len(unwrapped) = Len(lons_deg)
        /\ unwrapped[1] = lons_deg[1]
        /\ \A i \in 2..Len(lons_deg) :
              LET d == lons_deg[i] - lons_deg[i - 1]
                  adj == IF d > 180 THEN d - 360
                         ELSE IF d < -180 THEN d + 360 ELSE d
              IN  unwrapped[i] = unwrapped[i - 1] + adj
        /\ Len(lons_deg) = 1 => unwrapped = lons_deg

C1_Witness ==
    /\ pc = "unwrapped"
    /\ Len(lons_deg) >= 3
    /\ lons_deg[1] # 0
    /\ \E i \in 2..Len(lons_deg) : lons_deg[i] - lons_deg[i - 1] > 180
    /\ \E i \in 2..Len(lons_deg) : lons_deg[i] - lons_deg[i - 1] < -180

\* C2: the area of a ring equals the area of the ring with its vertices in
\* the reverse order.
C2_ReversalInvariant ==
    pc = "area_done" =>
        area = spherical_polygon_area_sq_m(Reverse(lats_deg), Reverse(lons_deg))

C2_Witness ==
    /\ pc = "area_done"
    /\ area > 0
    /\ not_closed(lats_deg, lons_deg)
    /\ Jumps(lons_deg)
    /\ Reverse(lons_deg) # lons_deg

\* C3: the area of a ring of at least one vertex equals the area of the ring
\* with a copy of its first vertex appended.
C3_ClosingInvariant ==
    (pc = "area_done" /\ Len(lats_deg) >= 1) =>
        area = spherical_polygon_area_sq_m(Append(lats_deg, lats_deg[1]),
                                           Append(lons_deg, lons_deg[1]))

C3_Witness ==
    /\ pc = "area_done"
    /\ Len(lats_deg) = 3
    /\ area > 0
    /\ not_closed(lats_deg, lons_deg)

\* C4: the area of a ring whose vertices take at most two distinct
\* (lat, lon) values is 0.
C4_TwoPointsZero ==
    (pc = "area_done" /\ Cardinality(Vertices(lats_deg, lons_deg)) <= 2) =>
        area = 0

C4_Witness ==
    /\ pc = "area_done"
    /\ Len(lats_deg) = 4
    /\ Cardinality(Vertices(lats_deg, lons_deg)) = 2
    /\ lats_deg[1] = lats_deg[3] /\ lons_deg[1] = lons_deg[3]
    /\ lats_deg[2] = lats_deg[4] /\ lons_deg[2] = lons_deg[4]
    /\ lats_deg[1] # lats_deg[2]
    /\ Abs(lons_deg[1] - lons_deg[2]) > 180
    /\ area = 0

\* C5: for a ring with longitudes in [-180, 180] whose edges (the closing
\* edge included) each span less than 180 degrees of longitude, the area
\* equals the area of the ring with every longitude shifted by -180 degrees
\* and wrapped back into [-180, 180].
C5_AntimeridianShift ==
    (pc = "area_done" /\ InRange(lons_deg) /\ ShortEdges(lons_deg)) =>
        area = spherical_polygon_area_sq_m(lats_deg, ShiftedRing(lons_deg))

C5_Witness ==
    /\ pc = "area_done"
    /\ InRange(lons_deg)
    /\ ShortEdges(lons_deg)
    /\ Jumps(lons_deg)
    /\ ~Jumps(ShiftedRing(lons_deg))
    /\ area > 0

\* C6: for longitudes in [-180, 180], _unwrap_lons applied to its own output
\* returns that output.
C6_UnwrapIdempotent ==
    (pc = "unwrapped" /\ InRange(lons_deg)) =>
        _unwrap_lons(unwrapped) = unwrapped

C6_Witness ==
    /\ pc = "unwrapped"
    /\ InRange(lons_deg)
    /\ Jumps(lons_deg)
    /\ unwrapped # lons_deg

\* C7 as stated: for longitudes in [-180, 180], consecutive outputs of
\* _unwrap_lons differ by less than 180 degrees.
C7_StepsBelow180 ==
    (pc = "unwrapped" /\ InRange(lons_deg)) =>
        \A i \in 2..Len(unwrapped) : Abs(unwrapped[i] - unwrapped[i - 1]) < 180

\* C7 as amended: for longitudes in [-180, 180], consecutive outputs of
\* _unwrap_lons differ by at most 180 degrees.
C7_StepsAtMost180 ==
    (pc = "unwrapped" /\ InRange(lons_deg)) =>
        \A i \in 2..Len(unwrapped) : Abs(unwrapped[i] - unwrapped[i - 1]) <= 180

C7_Witness ==
    /\ pc = "unwrapped"
    /\ InRange(lons_deg)
    /\ Jumps(lons_deg)
    /\ \E i \in 2..Len(unwrapped) : Abs(unwrapped[i] - unwrapped[i - 1]) = 180

\* C8: every polygon parse_kml_polygons returns, and so every ring of the
\* summary loop, has at least 3 distinct vertices.
C8_ThreeDistinctVertices ==
    /\ \A k \in 1..Len(results) :
          Cardinality(Vertices(results[k].lats, results[k].lons)) >= 3
    /\ \A k \in 1..Len(polygons) :
          Cardinality(Vertices(polygons[k].lats, polygons[k].lons)) >= 3

\* C9: centroid_latlon of empty lists returns (0, 0) and raises nothing.
C9_EmptyCentroid ==
    (pc \in {"done", "ZeroDivisionError"} /\ lats_deg = <<>>) =>
        /\ pc = "done"
        /\ centroid = [raised |-> "", lat |-> 0, lon |-> 0]

C9_Witness ==
    /\ pc = "done"
    /\ lats_deg = <<>>
    /\ lons_deg = <<>>
    /\ centroid.raised = ""

\* C10: the area call leaves the polygon's lists as the parser produced
\* them, and centroid_latlon is handed exactly those lists.
C10_CallerListsUnchanged ==
    /\ pc \in {"loop", "returned"} => polygons = parsed
    /\ \A k \in 1..Len(centroid_args) : centroid_args[k] = parsed[k]

C10_Witness ==
    /\ Len(centroid_args) >= 1
    /\ not_closed(parsed[1].lats, parsed[1].lons)
    /\ _unwrap_lons(parsed[1].lons) # parsed[1].lons
    /\ rows[1].Area_ha[1] > 0
    /\ centroid_args[1] = parsed[1]

====
